---- MODULE Spec2Model ----
(***************************************************************************)
(* SCOOP: the cooperative controller (scoop/control.py) and the futures    *)
(* API built on it (scoop/futures.py).                                     *)
(*                                                                         *)
(* One worker process is modelled.  Exactly one greenlet runs at a time:   *)
(* either the controller (pc says where it stands) or the task that        *)
(* control.current names (pc = "intask").  A task body is an arbitrary     *)
(* user callable; here it is any finite sequence of submit calls, wait     *)
(* generators over its own children (iterated, possibly abandoned), and    *)
(* finally a return or a raise.                                            *)
(***************************************************************************)
EXTENDS Integers, Sequences, FiniteSets, TLC

VARIABLES
    pc,           \* position of the controller greenlet
    retpc,        \* where runController continues when a task switches back
    is_origin,    \* control.is_origin
    task,         \* local variable `task` of runController (optional id)
    current,      \* control.current (optional id)
    rank,         \* control.rank
    task_dict,    \* control.task_dict: TaskId -> task record
    execQueue,    \* control.execQueue, tasks pending locally
    remoteSeen,   \* number of tasks the cluster has handed to this worker
    sent,         \* tasks given to execQueue.sendResult, in order
    shutdowns,    \* number of execQueue.socket.shutdown() calls
    retval,       \* value returned by runController (optional)
    error,        \* exception that left _startup, "" when none
    waitCalls,    \* number of wait generators created so far
    cbOutcome,    \* the task of the latest runTask and what its callback did
    apiCall,      \* the latest futures call made outside any task, and how it ended
    callbackGroupID,  \* futures.callbackGroupID, the next value of the counter
    erased,       \* group ids given to execQueue.socket.eraseBuffer, in order
    polls         \* number of execQueue.updateQueue() calls

ctlVars == <<pc, retpc, is_origin, task, current, rank, task_dict, execQueue,
             remoteSeen, sent, shutdowns, retval, error, waitCalls, cbOutcome>>

apiVars == <<apiCall, callbackGroupID, erased, polls>>

vars == <<ctlVars, apiVars>>

---------------------------------------------------------------------------
(* Bounds of the model. *)
MaxTasks  == 3      \* tasks created on this worker (root included)
MaxRemote == 1      \* tasks received from other workers
MaxWaits  == 2      \* wait, as_completed and map calls made in one run
MaxArgs   == 2      \* futures passed to one wait call
MaxLen    == 2      \* argument tuples one map call is given
MaxGroups == 2      \* callback group ids drawn before the runtime starts
MaxPolls  == 2      \* queue polls made before the runtime starts
MaxTasksFifo == 5   \* tasks created in a run of the single origin worker
MaxWaitsFifo == 3   \* wait calls made in a run of the single origin worker

---------------------------------------------------------------------------
(* futures.py lines 33-35. *)
FIRST_COMPLETED == "FIRST_COMPLETED"
FIRST_EXCEPTION == "FIRST_EXCEPTION"
ALL_COMPLETED   == "ALL_COMPLETED"

(* Python's None and optional values. *)
None    == <<>>
Some(x) == <<x>>

(* The value the callable of task id returns when it does not return None. *)
ValueOf(id) == <<"value of", id>>

(* control.py line 25: the identity of this worker. *)
worker == 1
remoteWorker == worker + 1

TaskId(w, r) == <<w, r>>

(* control.py line 48: the parent id of the root task. *)
rootId == TaskId(-1, 0)

(* The parent of the tasks other workers hand over lives on that worker. *)
remoteParentId == TaskId(remoteWorker, 0)

(* A task body's wait generator: the frame of futures._waitAny (kind "any")  *)
(* or futures._waitAll (kind "all"): its arguments, the position reached in *)
(* them, the count n of _waitAny and where the frame stands.  yielded, susp *)
(* and yAtSusp record what the generator has done so far: the futures it    *)
(* yielded, its switches to the controller and the number of yields made    *)
(* before the first switch; endedAtCall records the argument positions      *)
(* whose future had ended when the call was made.  op names the futures     *)
(* function that iterates the generator ("" when the task body does so      *)
(* itself), with its timeout, its return_when and its callback group; once  *)
(* the function has returned (phase "returned"), done and not_done hold the *)
(* pair wait returned and value the operands mapScan or mapReduce returned. *)
NoGen == [kind |-> "none", args |-> <<>>, pos |-> 1, n |-> 0, phase |-> "done",
          yielded |-> <<>>, susp |-> 0, endedAtCall |-> {}, yAtSusp |-> None,
          op |-> "", timeout |-> -1, return_when |-> "", group |-> None,
          done |-> {}, not_done |-> {}, value |-> <<>>]

(* Task.__init__: a fresh task record. *)
Task(parentId) ==
    [parentId |-> parentId, result |-> None, exceptionValue |-> None,
     greenlet |-> "None", index |-> None, children |-> {},
     callback |-> None,
     st |-> "new", runs |-> 0, ret |-> "no", gen |-> NoGen]

(* Future._ended: the future carries a result or a captured exception. *)
Ended(t) == t.result # None \/ t.exceptionValue # None

EmptyDict == [id \in {} |-> None]

Remove(q, i) == SubSeq(q, 1, i - 1) \o SubSeq(q, i + 1, Len(q))

---------------------------------------------------------------------------
(* execQueue.pop(): any locally pending task; or a pending task that has    *)
(* not started, handed back with the result it got, or the exception it     *)
(* raised, on another worker; or a task handed over by the cluster, whose   *)
(* index is set when its parent already waits for it on its own worker.     *)
(* Gives the popped task with the queue and the table after the pop.        *)
Pop(q, td, seen) ==
    { [t |-> q[i], q |-> Remove(q, i), td |-> td, seen |-> seen] : i \in 1..Len(q) }
    \cup
    { [t |-> q[i], q |-> Remove(q, i),
       td |-> [td EXCEPT ![q[i]].result = Some(ValueOf(q[i])), ![q[i]].st = "done"],
       seen |-> seen] :
         i \in { j \in 1..Len(q) : td[q[j]].st = "new" /\ q[j][1] = worker } }
    \cup
    { [t |-> q[i], q |-> Remove(q, i),
       td |-> [td EXCEPT ![q[i]].exceptionValue = Some("error"),
                         ![q[i]].st = "raised elsewhere"],
       seen |-> seen] :
         i \in { j \in 1..Len(q) : td[q[j]].st = "new" /\ q[j][1] = worker } }
    \cup
    ( IF seen < MaxRemote
        THEN LET id == TaskId(remoteWorker, seen + 1) IN
             { [t |-> id, q |-> q,
                td |-> (id :> [Task(remoteParentId) EXCEPT !.index = ix]) @@ td,
                seen |-> seen + 1] : ix \in {None, Some(0)} }
        ELSE {} )

(* Task.switch(task) on a task that has not run: control.current is set and *)
(* the greenlet starts runTask, which invokes the callable.                 *)
StartTask(td, id) ==
    [td EXCEPT ![id].greenlet = "live", ![id].st = "body", ![id].runs = @ + 1]

(* No futures call has been made outside a task. *)
NoCall == [op |-> "none", n |-> 0, timeout |-> 0, return_when |-> "", outcome |-> ""]

Init ==
    /\ pc = "idle"
    /\ retpc = "loop"
    /\ is_origin \in BOOLEAN
    /\ task = None
    /\ current = None
    /\ rank = 0
    /\ task_dict = EmptyDict
    /\ execQueue = <<>>
    /\ remoteSeen = 0
    /\ sent = <<>>
    /\ shutdowns = 0
    /\ retval = None
    /\ error = ""
    /\ waitCalls = 0
    /\ cbOutcome = <<None, "none">>
    /\ apiCall = NoCall
    /\ callbackGroupID = 0
    /\ erased = <<>>
    /\ polls = 0

---------------------------------------------------------------------------
(* The controller: futures._startup and control.runController.              *)

(* futures._startup lines 56-60: the controller greenlet is created and     *)
(* switched into.                                                           *)
startup ==
    /\ pc = "idle"
    /\ pc' = "boot"
    /\ UNCHANGED <<retpc, is_origin, task, current, rank, task_dict, execQueue,
                   remoteSeen, sent, shutdowns, retval, error, waitCalls, cbOutcome, apiVars>>

(* runController lines 48-57 on the origin worker: the root task is built   *)
(* from the callable and run.                                               *)
BootOrigin ==
    /\ pc = "boot"
    /\ is_origin = TRUE
    /\ LET id == TaskId(worker, rank) IN
       /\ task_dict' = StartTask((id :> Task(rootId)) @@ task_dict, id)
       /\ task' = Some(id)
       /\ current' = Some(id)
    /\ rank' = rank + 1
    /\ pc' = "intask"
    /\ retpc' = "loop"
    /\ UNCHANGED <<is_origin, execQueue, remoteSeen, sent, shutdowns, retval, error, waitCalls, cbOutcome, apiVars>>

(* runController lines 53-57 on any other worker: the first task is popped. *)
BootWorker ==
    /\ pc = "boot"
    /\ is_origin # TRUE
    /\ \E p \in Pop(execQueue, task_dict, remoteSeen) :
        /\ task_dict' = StartTask(p.td, p.t)
        /\ task' = Some(p.t)
        /\ current' = Some(p.t)
        /\ execQueue' = p.q
        /\ remoteSeen' = p.seen
    /\ pc' = "intask"
    /\ retpc' = "loop"
    /\ UNCHANGED <<is_origin, rank, sent, shutdowns, retval, error, waitCalls, cbOutcome, apiVars>>

(* Line 59 without the test of the result: the loop would also end when    *)
(* the root task switches back unfinished.                                 *)
LoopCondNoResult(t) ==
    t.parentId # rootId \/ is_origin = FALSE

(* Line 59, the condition under which the loop goes on. *)
LoopCond(t) ==
    (t.parentId # rootId \/ t.result = None) \/ is_origin = FALSE

(* Lines 86-87: the loop has ended. *)
CtlExit ==
    /\ pc = "loop"
    /\ ~LoopCond(task_dict[task[1]])
    /\ shutdowns' = shutdowns + 1
    /\ retval' = Some(task_dict[task[1]].result)
    /\ pc' = "done"
    /\ UNCHANGED <<retpc, is_origin, task, current, rank, task_dict, execQueue,
                   remoteSeen, sent, error, waitCalls, cbOutcome, apiVars>>

(* Lines 61-66 falling through to line 75: the finished task of another    *)
(* worker is sent and also appended to the local queue.                    *)
CtlSendResultRequeues ==
    /\ pc = "loop"
    /\ LET t == task_dict[task[1]] IN
       /\ LoopCond(t)
       /\ t.result # None
       /\ task[1][1] # worker
    /\ sent' = Append(sent, task[1])
    /\ \E p \in Pop(Append(execQueue, task[1]), task_dict, remoteSeen) :
        /\ task' = Some(p.t)
        /\ task_dict' = p.td
        /\ execQueue' = p.q
        /\ remoteSeen' = p.seen
    /\ pc' = "l81"
    /\ UNCHANGED <<retpc, is_origin, current, rank, shutdowns, retval, error, waitCalls, cbOutcome, apiVars>>

(* Lines 61-66: a finished task of another worker. *)
CtlSendResult ==
    /\ pc = "loop"
    /\ LET t == task_dict[task[1]] IN
       /\ LoopCond(t)
       /\ t.result # None
       /\ task[1][1] # worker
    /\ sent' = Append(sent, task[1])
    /\ \E p \in Pop(execQueue, task_dict, remoteSeen) :
        /\ task' = Some(p.t)
        /\ task_dict' = p.td
        /\ execQueue' = p.q
        /\ remoteSeen' = p.seen
    /\ pc' = "l81"
    /\ UNCHANGED <<retpc, is_origin, current, rank, shutdowns, retval, error, waitCalls, cbOutcome, apiVars>>

(* Lines 295-298 of futures._waitAny, run by the parent when the controller *)
(* switches back into it with the value `child`.                           *)
Resumed(g, child) ==
    [g EXCEPT !.phase = "yielded",
              !.yielded = Append(@, child),
              !.n = IF g.kind = "any" THEN @ - 1 ELSE @,
              !.pos = IF g.kind = "all" THEN @ + 1 ELSE @]

(* Lines 67-73: a finished local task whose index is set. *)
CtlResumeParent ==
    /\ pc = "loop"
    /\ LET id == task[1]
           t  == task_dict[id]
       IN
       /\ LoopCond(t)
       /\ t.result # None
       /\ id[1] = worker
       /\ t.index # None
       /\ IF t.parentId \notin DOMAIN task_dict
            THEN /\ pc' = "crashed" /\ error' = "KeyError"
                 /\ UNCHANGED <<retpc, task, current, task_dict>>
          ELSE IF task_dict[t.parentId].result # None
                  \/ task_dict[t.parentId].greenlet = "None"
            THEN /\ pc' = "crashed" /\ error' = "AssertionError"
                 /\ UNCHANGED <<retpc, task, current, task_dict>>
          ELSE /\ task_dict' = [task_dict EXCEPT
                                  ![t.parentId].gen = Resumed(@, id)]
               /\ current' = Some(t.parentId)
               /\ pc' = "intask"
               /\ retpc' = "l81"
               /\ UNCHANGED <<task, error>>
    /\ UNCHANGED <<is_origin, rank, execQueue, remoteSeen, sent, shutdowns, retval, waitCalls, cbOutcome, apiVars>>

(* Lines 74-76: a finished local task nobody waits for. *)
CtlRequeue ==
    /\ pc = "loop"
    /\ LET id == task[1]
           t  == task_dict[id]
       IN
       /\ LoopCond(t)
       /\ t.result # None
       /\ id[1] = worker
       /\ t.index = None
       /\ \E p \in Pop(Append(execQueue, id), task_dict, remoteSeen) :
            /\ task' = Some(p.t)
            /\ task_dict' = p.td
            /\ execQueue' = p.q
            /\ remoteSeen' = p.seen
    /\ pc' = "l81"
    /\ UNCHANGED <<retpc, is_origin, current, rank, sent, shutdowns, retval, error, waitCalls, cbOutcome, apiVars>>

(* Lines 77-79: the task is in progress. *)
CtlPopNext ==
    /\ pc = "loop"
    /\ LET t == task_dict[task[1]] IN
       /\ LoopCond(t)
       /\ t.result = None
    /\ \E p \in Pop(execQueue, task_dict, remoteSeen) :
        /\ task' = Some(p.t)
        /\ task_dict' = p.td
        /\ execQueue' = p.q
        /\ remoteSeen' = p.seen
    /\ pc' = "l81"
    /\ UNCHANGED <<retpc, is_origin, current, rank, sent, shutdowns, retval, error, waitCalls, cbOutcome, apiVars>>

(* Line 81 without the test of the result: a task handed back finished     *)
(* would be started.                                                       *)
NotStartedNoResultCheck(t) == t.greenlet = "None"

(* Line 81. *)
NotStarted(t) == t.result = None /\ t.greenlet = "None"

(* Lines 81-84: a task that has not started gets its greenlet and runs. *)
CtlStart ==
    /\ pc = "l81"
    /\ IF NotStarted(task_dict[task[1]])
         THEN /\ task_dict' = StartTask(task_dict, task[1])
              /\ current' = task
              /\ pc' = "intask"
              /\ retpc' = "loop"
         ELSE /\ pc' = "loop"
              /\ UNCHANGED <<task_dict, current, retpc>>
    /\ UNCHANGED <<is_origin, task, rank, execQueue, remoteSeen, sent, shutdowns,
                   retval, error, waitCalls, cbOutcome, apiVars>>

---------------------------------------------------------------------------
(* Task bodies: what the callable of the running task does.                 *)

Running(id) == pc = "intask" /\ current = Some(id)

(* No wait generator is being iterated and no futures call is under way. *)
Idle(g) ==
    \/ g.kind = "none"
    \/ g.phase = "done" /\ g.op = ""
    \/ g.phase = "returned"

(* The tuples of distinct children a body passes to a wait call. *)
ArgSeqs(S) ==
    { a \in UNION { [1..k -> S] : k \in 1..MaxArgs } :
        \A i, j \in DOMAIN a : i # j => a[i] # a[j] }

(* submit without line 264: the new task is enqueued but never registered   *)
(* as a child of the current task.                                         *)
submitUnregistered(id) ==
    /\ Running(id)
    /\ Idle(task_dict[id].gen)
    /\ rank < MaxTasks
    /\ LET child == TaskId(worker, rank) IN
       /\ task_dict' = (child :> Task(id)) @@ task_dict
       /\ execQueue' = Append(execQueue, child)
    /\ rank' = rank + 1
    /\ UNCHANGED <<pc, retpc, is_origin, task, current, remoteSeen, sent,
                   shutdowns, retval, error, waitCalls, cbOutcome, apiVars>>

(* futures.submit lines 256-266 with a running controller: a task parented *)
(* to control.current is created, registered as its child and enqueued.    *)
submit(id) ==
    /\ Running(id)
    /\ Idle(task_dict[id].gen)
    /\ rank < MaxTasks
    /\ LET child == TaskId(worker, rank) IN
       /\ task_dict' = [ ((child :> Task(id)) @@ task_dict)
                           EXCEPT ![id].children = @ \cup {child} ]
       /\ execQueue' = Append(execQueue, child)
    /\ rank' = rank + 1
    /\ UNCHANGED <<pc, retpc, is_origin, task, current, remoteSeen, sent,
                   shutdowns, retval, error, waitCalls, cbOutcome, apiVars>>

(* A call of _waitAny (kind "any") or _waitAll (kind "all") on args:       *)
(* the generator object is created; nothing runs before its first next().   *)
NewGen(kind, args, td) ==
    [kind |-> kind, args |-> args, pos |-> 1,
     n |-> IF kind = "any" THEN Len(args) ELSE 0,
     phase |-> "start", yielded |-> <<>>, susp |-> 0,
     endedAtCall |-> { p \in DOMAIN args : td[args[p]].result # None },
     yAtSusp |-> None,
     op |-> "", timeout |-> -1, return_when |-> "", group |-> None,
     done |-> {}, not_done |-> {}, value |-> <<>>]

callWait(id) ==
    /\ Running(id)
    /\ Idle(task_dict[id].gen)
    /\ waitCalls < MaxWaits
    /\ \E kind \in {"any", "all"}, args \in ArgSeqs(task_dict[id].children) :
         task_dict' = [task_dict EXCEPT ![id].gen = NewGen(kind, args, task_dict)]
    /\ waitCalls' = waitCalls + 1
    /\ UNCHANGED <<pc, retpc, is_origin, task, current, rank, execQueue,
                   remoteSeen, sent, shutdowns, retval, error, cbOutcome, apiVars>>

(* The scan without the _ended test of line 284: a finished future is      *)
(* given an index like an unfinished one.                                  *)
RECURSIVE ScanSkipsFinished(_, _, _)
ScanSkipsFinished(td, args, p) ==
    IF p > Len(args) THEN [td |-> td, pos |-> p, out |-> "end"]
    ELSE IF td[args[p]].exceptionValue # None
           THEN [td |-> td, pos |-> p, out |-> "raise"]
    ELSE ScanSkipsFinished([td EXCEPT ![args[p]].index = Some(p - 1)], args, p + 1)

(* futures._waitAny lines 281-288, from argument position p on: the scan    *)
(* stops at the first future that has ended (it is yielded) or carries an   *)
(* exception (it is raised); the unfinished ones passed get their index.    *)
RECURSIVE Scan(_, _, _)
Scan(td, args, p) ==
    IF p > Len(args) THEN [td |-> td, pos |-> p, out |-> "end"]
    ELSE IF td[args[p]].exceptionValue # None
           THEN [td |-> td, pos |-> p, out |-> "raise"]
    ELSE IF Ended(td[args[p]])
           THEN [td |-> td, pos |-> p, out |-> "yield"]
    ELSE Scan([td EXCEPT ![args[p]].index = Some(p - 1)], args, p + 1)

(* futures._waitAll lines 314-316: _waitAny on the single future args[p].   *)
ScanOne(td, args, p) ==
    IF p > Len(args) THEN [td |-> td, pos |-> p, out |-> "end"]
    ELSE LET s == Scan(td, <<args[p]>>, 1) IN
         [td |-> s.td, pos |-> p,
          out |-> IF s.out = "end" THEN "wait" ELSE s.out]

(* One next() on the generator of task id, up to its yield, its switch to   *)
(* the controller, its end, or the exception it raises.                     *)
GenStep(td, id) ==
    LET g == td[id].gen IN
    IF g.kind = "any"
      THEN LET s == Scan(td, g.args, g.pos) IN
           [td  |-> s.td, pos |-> s.pos,
            out |-> IF s.out = "end"
                      THEN (IF g.n > 0 THEN "wait" ELSE "end")
                      ELSE s.out]
      ELSE ScanOne(td, g.args, g.pos)

next(id) ==
    /\ Running(id)
    /\ task_dict[id].gen.kind # "none"
    /\ task_dict[id].gen.phase \in {"start", "yielded"}
    \* wait line 345 calls next() once on its generator
    /\ ~ ( /\ task_dict[id].gen.op = "wait"
           /\ task_dict[id].gen.return_when = FIRST_COMPLETED
           /\ task_dict[id].gen.phase = "yielded" )
    /\ LET g == task_dict[id].gen
           s == GenStep(task_dict, id)
       IN
       CASE s.out = "yield" ->
              /\ task_dict' = [s.td EXCEPT ![id].gen =
                    [g EXCEPT !.phase = "yielded",
                              !.yielded = Append(@, g.args[s.pos]),
                              !.n = IF g.kind = "any" THEN @ - 1 ELSE @,
                              !.pos = s.pos + 1]]
              /\ UNCHANGED <<pc, task, error>>
         [] s.out = "end" /\ ~(g.op = "wait" /\ g.return_when = FIRST_COMPLETED) ->
              /\ task_dict' = [s.td EXCEPT ![id].gen =
                    [g EXCEPT !.phase = "done", !.pos = s.pos]]
              /\ UNCHANGED <<pc, task, error>>
         [] s.out = "end" /\ g.op = "wait" /\ g.return_when = FIRST_COMPLETED ->
              \* wait line 345: next() on a generator that ends at once
              /\ task_dict' = [s.td EXCEPT ![id].st = "raised",
                                           ![id].greenlet = "dead"]
              /\ pc' = "crashed"
              /\ error' = "StopIteration"
              /\ UNCHANGED task
         [] s.out = "wait" ->
              \* lines 289-293: switch to the controller with control.current
              /\ task_dict' = [s.td EXCEPT ![id].gen =
                    [g EXCEPT !.phase = "suspended", !.pos = s.pos,
                              !.susp = @ + 1,
                              !.yAtSusp = IF @ = None THEN Some(Len(g.yielded))
                                          ELSE @]]
              /\ task' = current
              /\ pc' = retpc
              /\ UNCHANGED error
         [] s.out = "raise" ->
              \* the captured exception leaves the callable
              /\ task_dict' = [s.td EXCEPT ![id].st = "raised",
                                           ![id].greenlet = "dead"]
              /\ pc' = "crashed"
              /\ error' = "CallableError"
              /\ UNCHANGED task
    /\ UNCHANGED <<retpc, is_origin, current, rank, execQueue, remoteSeen, sent,
                   shutdowns, retval, waitCalls, cbOutcome, apiVars>>

(* The body drops a generator it has not exhausted (as wait() does with     *)
(* FIRST_COMPLETED, futures.py line 345).                                   *)
abandon(id) ==
    /\ Running(id)
    /\ task_dict[id].gen.phase = "yielded"
    /\ task_dict[id].gen.op = ""
    /\ task_dict' = [task_dict EXCEPT ![id].gen = NoGen]
    /\ UNCHANGED <<pc, retpc, is_origin, task, current, rank, execQueue,
                   remoteSeen, sent, shutdowns, retval, error, waitCalls, cbOutcome, apiVars>>

(* runTask without the try/except of lines 41-42: the exception of the     *)
(* callback leaves runTask.                                                *)
runTaskCallbackEscapes(t, v, cb) ==
    IF v = None
      THEN [t |-> [t EXCEPT !.st = "failed", !.greenlet = "dead", !.gen = NoGen],
            err |-> "AssertionError", cb |-> "none"]
      ELSE [t |-> [t EXCEPT !.result = v, !.st = "done", !.greenlet = "dead",
                            !.gen = NoGen],
            err |-> IF cb = "raised" THEN "CallbackError" ELSE "", cb |-> cb]

(* runTask without the assertion of line 37: a None result is returned to  *)
(* the controller like any other.                                          *)
runTaskNoAssert(t, v, cb) ==
    [t |-> [t EXCEPT !.result = v, !.st = "done", !.greenlet = "dead",
                     !.gen = NoGen],
     err |-> "", cb |-> cb]

(* control.runTask lines 36-43 once the callable has returned v; cb is what *)
(* the task's callback does ("none": there is no callback).                 *)
runTask(t, v, cb) ==
    IF v = None
      THEN [t |-> [t EXCEPT !.st = "failed", !.greenlet = "dead", !.gen = NoGen],
            err |-> "AssertionError", cb |-> "none"]
      ELSE [t |-> [t EXCEPT !.result = v, !.st = "done", !.greenlet = "dead",
                            !.gen = NoGen],
            err |-> "", cb |-> cb]

(* The callable of the running task returns; cbs is what the callback of   *)
(* the task may do.                                                        *)
returns(id, cbs) ==
    /\ Running(id)
    /\ Idle(task_dict[id].gen)
    /\ \E v \in {None, Some(ValueOf(id))}, cb \in cbs :
         LET r == runTask(task_dict[id], v, cb) IN
         /\ task_dict' = [task_dict EXCEPT ![id] =
                             [r.t EXCEPT !.ret = IF v = None THEN "None" ELSE "value"]]
         /\ cbOutcome' = <<Some(id), r.cb>>
         /\ IF r.err = ""
              THEN /\ task' = Some(id)
                   /\ pc' = retpc
                   /\ UNCHANGED error
              ELSE /\ pc' = "crashed"
                   /\ error' = r.err
                   /\ UNCHANGED task
    /\ UNCHANGED <<retpc, is_origin, current, rank, execQueue, remoteSeen, sent,
                   shutdowns, retval, waitCalls, apiVars>>

(* The callable of a task returns; a callback may have been added to the   *)
(* future by then (add_done_callback).                                     *)
return(id) == returns(id, {"none", "returned", "raised"})

(* The callable of the running task raises: runTask line 36 has no handler, *)
(* the exception leaves the task's greenlet and is raised in its parent     *)
(* greenlet, the controller.                                                *)
raise(id) ==
    /\ Running(id)
    /\ Idle(task_dict[id].gen)
    /\ task_dict' = [task_dict EXCEPT ![id].st = "raised", ![id].greenlet = "dead"]
    /\ pc' = "crashed"
    /\ error' = "CallableError"
    /\ UNCHANGED <<retpc, is_origin, task, current, rank, execQueue, remoteSeen,
                   sent, shutdowns, retval, waitCalls, cbOutcome, apiVars>>

---------------------------------------------------------------------------
(* Task bodies that use the futures functions wait, mapScan and mapReduce.  *)

ReturnWhen == {FIRST_COMPLETED, FIRST_EXCEPTION, ALL_COMPLETED}

(* The sequences of its own children a body passes to wait as fs. *)
FsSeqs(S) == ArgSeqs(S) \cup {<<>>}

(* The same up to the order of the futures, which lines 353-374 of wait do  *)
(* not depend on: the sequences in increasing order of rank.                *)
FsSets(S) == { fs \in FsSeqs(S) :
                 \A i, j \in DOMAIN fs : i < j => fs[i][2] < fs[j][2] }

(* execQueue.updateQueue(): one non-blocking poll; a pending task that has  *)
(* not started may come back with the result it got, or the exception it    *)
(* raised, on another worker.  Gives the task table after the poll.         *)
updateQueue(q, td) ==
    {td}
    \cup
    { [td EXCEPT ![q[i]].result = Some(ValueOf(q[i])), ![q[i]].st = "done"] :
        i \in { j \in 1..Len(q) : td[q[j]].st = "new" /\ q[j][1] = worker } }
    \cup
    { [td EXCEPT ![q[i]].exceptionValue = Some("error"),
                 ![q[i]].st = "raised elsewhere"] :
        i \in { j \in 1..Len(q) : td[q[j]].st = "new" /\ q[j][1] = worker } }

(* Future.done(). *)
done(t) == Ended(t)

(* DoneAndNotDoneFutures(done, not_done) of wait(fs, timeout, rw), kept in  *)
(* the frame of the caller.                                                 *)
DoneAndNotDoneFutures(g, fs, timeout, rw, d) ==
    [g EXCEPT !.op = "wait", !.args = fs, !.timeout = timeout,
              !.return_when = rw, !.phase = "returned",
              !.done = d, !.not_done = { fs[i] : i \in DOMAIN fs } \ d]

(* wait with timeout = 0 whose done set is computed before the poll of     *)
(* line 354 instead of after it.                                           *)
waitNowStale(id) ==
    /\ Running(id)
    /\ Idle(task_dict[id].gen)
    /\ polls < MaxPolls
    /\ waitCalls < MaxWaits
    /\ \E fs \in FsSets(task_dict[id].children),
          td \in updateQueue(execQueue, task_dict) :
         task_dict' = [td EXCEPT ![id].gen =
             DoneAndNotDoneFutures(NoGen, fs, 0, ALL_COMPLETED,
                 { f \in { fs[i] : i \in DOMAIN fs } : Ended(task_dict[f]) })]
    /\ polls' = polls + 1
    /\ waitCalls' = waitCalls + 1
    /\ UNCHANGED <<pc, retpc, is_origin, task, current, rank, execQueue,
                   remoteSeen, sent, shutdowns, retval, error,
                   cbOutcome, apiCall, callbackGroupID, erased>>

(* futures.wait lines 353-357, timeout = 0: one poll, then the futures of   *)
(* fs that have ended and the rest; return_when is not read.                *)
waitNow(id) ==
    /\ Running(id)
    /\ Idle(task_dict[id].gen)
    /\ polls < MaxPolls
    /\ waitCalls < MaxWaits
    /\ \E fs \in FsSets(task_dict[id].children),
          td \in updateQueue(execQueue, task_dict) :
         task_dict' = [td EXCEPT ![id].gen =
             DoneAndNotDoneFutures(NoGen, fs, 0, ALL_COMPLETED,
                 { f \in { fs[i] : i \in DOMAIN fs } : Ended(td[f]) })]
    /\ polls' = polls + 1
    /\ waitCalls' = waitCalls + 1
    /\ UNCHANGED <<pc, retpc, is_origin, task, current, rank, execQueue,
                   remoteSeen, sent, shutdowns, retval, error,
                   cbOutcome, apiCall, callbackGroupID, erased>>

(* futures.wait lines 360-373, timeout > 0: the iterations of the loop made *)
(* before the deadline, k at most; acc is the set done so far and it the    *)
(* number of iterations made.  Gives every way the loop can end.            *)
RECURSIVE TimedLoop(_, _, _, _, _, _, _)
TimedLoop(q, td, fs, rw, acc, it, k) ==
    IF it = k THEN { [td |-> td, done |-> acc, it |-> it] }
    ELSE UNION {
           LET d  == acc \cup { f \in { fs[i] : i \in DOMAIN fs } : Ended(u[f]) }
               nd == { fs[i] : i \in DOMAIN fs } \ d
           IN  IF (rw = FIRST_COMPLETED /\ d # {}) \/ nd = {}
                 THEN { [td |-> u, done |-> d, it |-> it + 1] }
                 ELSE TimedLoop(q, u, fs, rw, d, it + 1, k)
           : u \in updateQueue(q, td) }

(* futures.wait lines 359-374, timeout > 0.  When the deadline has passed   *)
(* before the first test of line 362, not_done is unbound at line 374.      *)
waitTimed(id) ==
    /\ Running(id)
    /\ Idle(task_dict[id].gen)
    /\ waitCalls < MaxWaits
    /\ \E fs \in FsSets(task_dict[id].children), rw \in ReturnWhen,
          k \in 0..(MaxPolls - polls) :
         \E r \in TimedLoop(execQueue, task_dict, fs, rw, {}, 0, k) :
           /\ polls' = polls + r.it
           /\ IF r.it = 0
                THEN /\ task_dict' = [task_dict EXCEPT ![id].st = "raised",
                                                       ![id].greenlet = "dead"]
                     /\ pc' = "crashed"
                     /\ error' = "UnboundLocalError"
                ELSE /\ task_dict' = [r.td EXCEPT ![id].gen =
                            DoneAndNotDoneFutures(NoGen, fs, 1, rw, r.done)]
                     /\ UNCHANGED <<pc, error>>
    /\ waitCalls' = waitCalls + 1
    /\ UNCHANGED <<retpc, is_origin, task, current, rank, execQueue,
                   remoteSeen, sent, shutdowns, retval,
                   cbOutcome, apiCall, callbackGroupID, erased>>

(* futures.wait lines 343-348, timeout < 0: the generator of _waitAny       *)
(* (FIRST_COMPLETED) or of _waitAll is created; next(id) iterates it.       *)
waitBlocking(id) ==
    /\ Running(id)
    /\ Idle(task_dict[id].gen)
    /\ waitCalls < MaxWaits
    /\ \E fs \in FsSeqs(task_dict[id].children), rw \in ReturnWhen :
         task_dict' = [task_dict EXCEPT ![id].gen =
             [NewGen(IF rw = FIRST_COMPLETED THEN "any" ELSE "all", fs, task_dict)
                EXCEPT !.op = "wait", !.return_when = rw]]
    /\ waitCalls' = waitCalls + 1
    /\ UNCHANGED <<pc, retpc, is_origin, task, current, rank, execQueue,
                   remoteSeen, sent, shutdowns, retval, error, cbOutcome, apiVars>>

(* futures.wait lines 349-351: after the one next() of FIRST_COMPLETED, or  *)
(* after the loop over _waitAll has ended, the futures of fs are split by   *)
(* done() and the generator is dropped.                                     *)
waitReturn(id) ==
    /\ Running(id)
    /\ LET g == task_dict[id].gen IN
       /\ g.op = "wait"
       /\ \/ g.return_when = FIRST_COMPLETED /\ g.phase = "yielded"
          \/ g.return_when # FIRST_COMPLETED /\ g.phase = "done"
       /\ task_dict' = [task_dict EXCEPT ![id].gen =
             DoneAndNotDoneFutures(g, g.args, -1, g.return_when,
                 { f \in { g.args[i] : i \in DOMAIN g.args } : done(task_dict[f]) })]
    /\ UNCHANGED <<pc, retpc, is_origin, task, current, rank, execQueue,
                   remoteSeen, sent, shutdowns, retval, error, waitCalls,
                   cbOutcome, apiVars>>

(* The callback group of a call: mapScan line 151 uses the bare counter,    *)
(* mapReduce line 198 pairs it with the id of the calling task.             *)
GroupID(op, id, counter) ==
    IF op = "mapScan" THEN <<None, counter>> ELSE <<Some(id), counter>>

(* futures.mapScan lines 149-168 and futures.mapReduce lines 196-215 up to  *)
(* the call of _waitAll: the group id is drawn, one child per argument      *)
(* tuple is created, registered and enqueued, and the generator over the    *)
(* launches is created; next(id) iterates it.                               *)
mapCall(id) ==
    /\ Running(id)
    /\ Idle(task_dict[id].gen)
    /\ waitCalls < MaxWaits
    /\ callbackGroupID < MaxGroups
    /\ \E op \in {"mapScan", "mapReduce"}, n \in 0..MaxLen :
         /\ rank + n <= MaxTasks
         /\ LET launches == [i \in 1..n |-> TaskId(worker, rank + i - 1)]
                grp == GroupID(op, id, callbackGroupID)
                td1 == [c \in { launches[i] : i \in 1..n } |->
                          [Task(id) EXCEPT !.callback = Some(grp)]] @@ task_dict
                td2 == [td1 EXCEPT ![id].children = @ \cup { launches[i] : i \in 1..n }]
            IN
            /\ task_dict' = [td2 EXCEPT ![id].gen =
                   [NewGen("all", launches, td2)
                      EXCEPT !.op = op,
                             !.group = Some(grp)]]
            /\ execQueue' = execQueue \o launches
         /\ rank' = rank + n
    /\ callbackGroupID' = callbackGroupID + 1
    /\ waitCalls' = waitCalls + 1
    /\ UNCHANGED <<pc, retpc, is_origin, task, current, remoteSeen, sent,
                   shutdowns, retval, error, cbOutcome, apiCall, erased, polls>>

(* sorted(..., key=lambda x: x.executor[1]) of mapReduce line 215: the      *)
(* futures in the order of their per-child sequence number.                 *)
RECURSIVE SortedBySeqNo(_)
SortedBySeqNo(S) ==
    IF S = {} THEN <<>>
    ELSE LET m == CHOOSE x \in S : \A y \in S : x[2] <= y[2]
         IN  <<m>> \o SortedBySeqNo(S \ {m})

(* Future.result() of each future of fs, in order: the operands the         *)
(* reduction folds from left to right.                                      *)
Results(fs) == [i \in DOMAIN fs |-> ValueOf(fs[i])]

(* futures.mapScan lines 168-172 and futures.mapReduce lines 215-219 once   *)
(* the generator has ended: the buffer of the group is erased and the       *)
(* results are returned, by mapReduce folded in the order of the sequence   *)
(* numbers; reduce() of no operand raises TypeError.                        *)
mapReturn(id) ==
    /\ Running(id)
    /\ LET g == task_dict[id].gen IN
       /\ g.op \in {"mapScan", "mapReduce"}
       /\ g.phase = "done"
       /\ erased' = Append(erased, g.group[1])
       /\ IF g.op = "mapReduce" /\ g.yielded = <<>>
            THEN /\ task_dict' = [task_dict EXCEPT ![id].st = "raised",
                                                   ![id].greenlet = "dead"]
                 /\ pc' = "crashed"
                 /\ error' = "TypeError"
            ELSE /\ task_dict' = [task_dict EXCEPT ![id].gen =
                        [g EXCEPT !.phase = "returned",
                                  !.value = IF g.op = "mapReduce"
                                     THEN Results(SortedBySeqNo(
                                            { g.yielded[i] : i \in DOMAIN g.yielded }))
                                     ELSE Results(g.yielded)]]
                 /\ UNCHANGED <<pc, error>>
    /\ UNCHANGED <<retpc, is_origin, task, current, rank, execQueue,
                   remoteSeen, sent, shutdowns, retval, waitCalls,
                   cbOutcome, apiCall, callbackGroupID, polls>>

---------------------------------------------------------------------------
Submit   == \E id \in DOMAIN task_dict : submit(id)
CallWait == \E id \in DOMAIN task_dict : callWait(id)
GenNext  == \E id \in DOMAIN task_dict : next(id)
Abandon  == \E id \in DOMAIN task_dict : abandon(id)
Return   == \E id \in DOMAIN task_dict : return(id)
Raise    == \E id \in DOMAIN task_dict : raise(id)

WaitNow      == \E id \in DOMAIN task_dict : waitNow(id)
WaitTimed    == \E id \in DOMAIN task_dict : waitTimed(id)
WaitBlocking == \E id \in DOMAIN task_dict : waitBlocking(id)
WaitReturn   == \E id \in DOMAIN task_dict : waitReturn(id)
MapCall      == \E id \in DOMAIN task_dict : mapCall(id)
MapReturn    == \E id \in DOMAIN task_dict : mapReturn(id)

(* The callable of a task returns; its callback is the reduction attached  *)
(* by mapScan or mapReduce, if any.                                        *)
ReturnApi ==
    \E id \in DOMAIN task_dict :
        returns(id, IF task_dict[id].callback = None THEN {"none"}
                    ELSE {"returned", "raised"})

Body ==
    \/ Submit
    \/ CallWait
    \/ GenNext
    \/ Abandon
    \/ Return
    \/ Raise

Controller ==
    \/ startup
    \/ BootOrigin
    \/ BootWorker
    \/ CtlExit
    \/ CtlSendResult
    \/ CtlResumeParent
    \/ CtlRequeue
    \/ CtlPopNext
    \/ CtlStart

Next == Controller \/ Body

Spec == Init /\ [][Next]_vars

(* The greenlets under _controller.switch of futures._startup line 60: the  *)
(* controller and the tasks it runs.  scoop._comm.Shutdown raised in any of *)
(* them leaves runController, which has no handler, and reaches _startup.   *)
ControllerActive == pc \in {"boot", "loop", "l81", "intask"}

(* _startup without the except clause of lines 61-63: the signal leaves     *)
(* _startup.                                                                *)
startupShutdownPropagates ==
    /\ ControllerActive
    /\ pc' = "crashed"
    /\ error' = "Shutdown"
    /\ UNCHANGED <<retpc, is_origin, task, current, rank, task_dict, execQueue,
                   remoteSeen, sent, shutdowns, retval, waitCalls, cbOutcome, apiVars>>

(* futures._startup lines 59-68 when scoop._comm.Shutdown is raised under   *)
(* the switch of line 60: result = None, execQueue.shutdown() is called and *)
(* result is returned.                                                      *)
startupShutdown ==
    /\ ControllerActive
    /\ retval' = None
    /\ shutdowns' = shutdowns + 1
    /\ pc' = "stopped"
    /\ UNCHANGED <<retpc, is_origin, task, current, rank, task_dict, execQueue,
                   remoteSeen, sent, error, waitCalls, cbOutcome, apiVars>>

(* The runtime of Spec with the shutdown signal of the queue transport. *)
NextShutdown == Next \/ startupShutdown

SpecShutdown == Init /\ [][NextShutdown]_vars

---------------------------------------------------------------------------
(* A single origin worker whose pending-work queue is first in, first out.  *)

(* execQueue.pop() of a FIFO queue nobody else feeds: the oldest pending    *)
(* task; on an empty queue the call does not return.                        *)
PopFifo(q, td, seen) ==
    IF q = <<>> THEN {}
    ELSE { [t |-> Head(q), q |-> Tail(q), td |-> td, seen |-> seen] }

InitFifo == Init /\ is_origin = TRUE

(* Lines 74-76 with the FIFO queue: the finished task goes to the back and  *)
(* the oldest pending task is taken.                                        *)
CtlRequeueFifo ==
    /\ pc = "loop"
    /\ LET id == task[1]
           t  == task_dict[id]
       IN
       /\ LoopCond(t)
       /\ t.result # None
       /\ id[1] = worker
       /\ t.index = None
       /\ \E p \in PopFifo(Append(execQueue, id), task_dict, remoteSeen) :
            /\ task' = Some(p.t)
            /\ task_dict' = p.td
            /\ execQueue' = p.q
            /\ remoteSeen' = p.seen
    /\ pc' = "l81"
    /\ UNCHANGED <<retpc, is_origin, current, rank, sent, shutdowns, retval, error, waitCalls, cbOutcome, apiVars>>

(* Lines 77-79 with the FIFO queue. *)
CtlPopNextFifo ==
    /\ pc = "loop"
    /\ LET t == task_dict[task[1]] IN
       /\ LoopCond(t)
       /\ t.result = None
    /\ \E p \in PopFifo(execQueue, task_dict, remoteSeen) :
        /\ task' = Some(p.t)
        /\ task_dict' = p.td
        /\ execQueue' = p.q
        /\ remoteSeen' = p.seen
    /\ pc' = "l81"
    /\ UNCHANGED <<retpc, is_origin, current, rank, sent, shutdowns, retval, error, waitCalls, cbOutcome, apiVars>>

(* futures.submit lines 256-266, within the bounds of these runs. *)
submitFifo(id) ==
    /\ Running(id)
    /\ Idle(task_dict[id].gen)
    /\ rank < MaxTasksFifo
    /\ LET child == TaskId(worker, rank) IN
       /\ task_dict' = [ ((child :> Task(id)) @@ task_dict)
                           EXCEPT ![id].children = @ \cup {child} ]
       /\ execQueue' = Append(execQueue, child)
    /\ rank' = rank + 1
    /\ UNCHANGED <<pc, retpc, is_origin, task, current, remoteSeen, sent,
                   shutdowns, retval, error, waitCalls, cbOutcome, apiVars>>

(* A call of _waitAny or _waitAll on distinct children of the caller,       *)
(* within the bounds of these runs.                                         *)
callWaitFifo(id) ==
    /\ Running(id)
    /\ Idle(task_dict[id].gen)
    /\ waitCalls < MaxWaitsFifo
    /\ \E kind \in {"any", "all"}, args \in ArgSeqs(task_dict[id].children) :
         task_dict' = [task_dict EXCEPT ![id].gen = NewGen(kind, args, task_dict)]
    /\ waitCalls' = waitCalls + 1
    /\ UNCHANGED <<pc, retpc, is_origin, task, current, rank, execQueue,
                   remoteSeen, sent, shutdowns, retval, error, cbOutcome, apiVars>>

SubmitFifo   == \E id \in DOMAIN task_dict : submitFifo(id)
CallWaitFifo == \E id \in DOMAIN task_dict : callWaitFifo(id)

(* Task bodies that submit, wait for children of their own, and return. *)
BodyFifo ==
    \/ SubmitFifo
    \/ CallWaitFifo
    \/ GenNext
    \/ Abandon
    \/ ReturnApi

ControllerFifo ==
    \/ startup
    \/ BootOrigin
    \/ CtlExit
    \/ CtlResumeParent
    \/ CtlRequeueFifo
    \/ CtlPopNextFifo
    \/ CtlStart

NextFifo == ControllerFifo \/ BodyFifo

SpecFifo == InitFifo /\ [][NextFifo]_vars

(* Task bodies written with submit and wait in its three modes: timeout   *)
(* = 0, timeout > 0 and the blocking wait, timeout < 0.                     *)
BodyWait ==
    \/ Submit
    \/ WaitNow
    \/ WaitTimed
    \/ WaitBlocking
    \/ WaitReturn
    \/ GenNext
    \/ ReturnApi
    \/ Raise

NextWait == Controller \/ BodyWait

SpecWait == Init /\ [][NextWait]_vars

(* Task bodies written with submit, blocking wait, mapScan and mapReduce. *)
BodyMap ==
    \/ Submit
    \/ WaitBlocking
    \/ WaitReturn
    \/ MapCall
    \/ MapReturn
    \/ GenNext
    \/ ReturnApi
    \/ Raise

NextMap == Controller \/ BodyMap

SpecMap == Init /\ [][NextMap]_vars

---------------------------------------------------------------------------
(* The futures API called before _startup: control.current is None, no     *)
(* future exists, so every sequence of futures passed is empty.            *)

BeforeStartup == pc = "idle" /\ current = None

Called(op, n, timeout, rw, outcome) ==
    [op |-> op, n |-> n, timeout |-> timeout, return_when |-> rw,
     outcome |-> outcome]

(* Future(control.current.id, ...): the attribute access on None raises. *)
NewFuture(cur) == IF cur = None THEN "AttributeError" ELSE "ok"

(* submit without the try/except of lines 256-263. *)
submitOutcomeUnhandled(cur) == NewFuture(cur)

(* futures.submit lines 256-266: the AttributeError of the construction is *)
(* turned into NotStartedProperly; nothing is registered or enqueued.      *)
submitOutcome(cur) ==
    IF NewFuture(cur) = "AttributeError" THEN "NotStartedProperly" ELSE "ok"

(* futures._mapFuture lines 92-95 / map lines 123-125, iterated: one submit *)
(* per argument tuple, the first of which raises.                           *)
mapOutcome(cur, n) ==
    IF n > 0 /\ submitOutcome(cur) # "ok" THEN submitOutcome(cur) ELSE "returned"

(* futures.mapScan lines 152-159: the construction is inside the try. *)
mapScanOutcome(cur, n) ==
    IF n > 0 /\ NewFuture(cur) = "AttributeError" THEN "NotStartedProperly"
    ELSE "returned"

(* futures.mapReduce line 198: control.current.id is read before the try. *)
mapReduceOutcome(cur, n) ==
    IF cur = None THEN "AttributeError"
    ELSE IF n > 0 /\ NewFuture(cur) = "AttributeError" THEN "NotStartedProperly"
    ELSE "returned"

IdleSubmit ==
    /\ BeforeStartup
    /\ apiCall' = Called("submit", 1, 0, "", submitOutcome(current))
    /\ UNCHANGED <<ctlVars, callbackGroupID, erased, polls>>

IdleMap ==
    /\ BeforeStartup
    /\ \E n \in 0..MaxLen :
         apiCall' = Called("map", n, 0, "", mapOutcome(current, n))
    /\ UNCHANGED <<ctlVars, callbackGroupID, erased, polls>>

(* futures.mapScan lines 149-172: the group id is drawn first; with no      *)
(* argument tuple nothing is created and the buffer of the group is erased. *)
IdleMapScan ==
    /\ BeforeStartup
    /\ callbackGroupID < MaxGroups
    /\ \E n \in 0..MaxLen :
         LET out == mapScanOutcome(current, n) IN
         /\ apiCall' = Called("mapScan", n, 0, "", out)
         /\ erased' = IF out = "returned"
                        THEN Append(erased, <<None, callbackGroupID>>)
                      ELSE erased
    /\ callbackGroupID' = callbackGroupID + 1
    /\ UNCHANGED <<ctlVars, polls>>

(* futures.mapReduce lines 196-219. *)
IdleMapReduce ==
    /\ BeforeStartup
    /\ \E n \in 0..MaxLen :
         apiCall' = Called("mapReduce", n, 0, "", mapReduceOutcome(current, n))
    /\ UNCHANGED <<ctlVars, callbackGroupID, erased, polls>>

(* futures.wait lines 342-374 on an empty sequence of futures. *)
IdleWait ==
    /\ BeforeStartup
    /\ polls < MaxPolls
    /\ \E timeout \in {-1, 0, 1},
          rw \in {FIRST_COMPLETED, FIRST_EXCEPTION, ALL_COMPLETED} :
         /\ apiCall' = Called("wait", 0, timeout, rw,
                IF timeout < 0 /\ rw = FIRST_COMPLETED THEN "StopIteration"
                ELSE "returned")
         /\ polls' = IF timeout < 0 THEN polls ELSE polls + 1
    /\ UNCHANGED <<ctlVars, callbackGroupID, erased>>

(* futures.as_completed line 389 on an empty sequence of futures. *)
IdleAsCompleted ==
    /\ BeforeStartup
    /\ apiCall' = Called("as_completed", 0, 0, "", "returned")
    /\ UNCHANGED <<ctlVars, callbackGroupID, erased, polls>>

(* futures.shutdown lines 417-421. *)
IdleShutdown ==
    /\ BeforeStartup
    /\ apiCall' = Called("shutdown", 0, 0, "", "returned")
    /\ UNCHANGED <<ctlVars, callbackGroupID, erased, polls>>

NextIdle ==
    \/ IdleSubmit
    \/ IdleMap
    \/ IdleMapScan
    \/ IdleMapReduce
    \/ IdleWait
    \/ IdleAsCompleted
    \/ IdleShutdown

SpecIdle == Init /\ [][NextIdle]_vars

---------------------------------------------------------------------------
(* Claims. *)

Tasks == DOMAIN task_dict

Gen(id) == task_dict[id].gen

SeqSet(q) == { q[i] : i \in DOMAIN q }

IsPrefix(a, b) == Len(a) <= Len(b) /\ SubSeq(b, 1, Len(a)) = a

(* The arguments at the positions S, in the order given. *)
RECURSIVE PickFrom(_, _, _)
PickFrom(args, S, p) ==
    IF p > Len(args) THEN <<>>
    ELSE (IF p \in S THEN <<args[p]>> ELSE <<>>) \o PickFrom(args, S, p + 1)

(* C1: a _waitAll generator iterated to exhaustion has yielded exactly its  *)
(* arguments, the i-th yield being the i-th argument, whatever the order in *)
(* which the controller ran the children.                                   *)
C1_WaitAllInOrder ==
    \A id \in Tasks :
        (Gen(id).kind = "all" /\ Gen(id).phase = "done")
            => Gen(id).yielded = Gen(id).args

(* C2: in a _waitAny call the futures that had already finished are         *)
(* yielded, in the order given, before the caller first switches to the     *)
(* controller: the yields made before the first switch are exactly those    *)
(* futures, and a call that ends without a switch has yielded exactly them. *)
C2_FinishedBeforeSuspension ==
    \A id \in Tasks :
        LET g   == Gen(id)
            pre == PickFrom(g.args, g.endedAtCall, 1)
        IN  g.kind = "any" =>
              IF g.yAtSusp # None
                THEN SubSeq(g.yielded, 1, g.yAtSusp[1]) = pre
              ELSE IF g.phase = "done"
                THEN g.yielded = pre
              ELSE IsPrefix(g.yielded, pre)

(* C2 witness: of two futures the first was finished at the call; it has   *)
(* been yielded and the caller has not switched to the controller.         *)
C2_Witness ==
    \E id \in Tasks :
        /\ Gen(id).kind = "any"
        /\ Len(Gen(id).args) = 2
        /\ Gen(id).endedAtCall = {1}
        /\ Gen(id).yielded = <<Gen(id).args[1]>>
        /\ Gen(id).susp = 0

(* C3: a _waitAny generator iterated to exhaustion has produced every      *)
(* requested future exactly once, and has switched to the controller once  *)
(* for each future that was unfinished at the call.                        *)
C3_EachExactlyOnce ==
    \A id \in Tasks :
        LET g == Gen(id) IN
        (g.kind = "any" /\ g.phase = "done") =>
            /\ Len(g.yielded) = Len(g.args)
            /\ SeqSet(g.yielded) = SeqSet(g.args)
            /\ g.susp = Len(g.args) - Cardinality(g.endedAtCall)

(* C4: a callable that raises does not abort the controller: the exception *)
(* is captured on the future and the controller goes on.                   *)
C4_ExceptionCaptured ==
    \A id \in Tasks :
        task_dict[id].st = "raised" =>
            /\ task_dict[id].exceptionValue # None
            /\ pc # "crashed"

C6_NoneIsFatal ==
    \A id \in Tasks :
        task_dict[id].ret = "None" =>
            /\ pc = "crashed"
            /\ error = "AssertionError"
            /\ task_dict[id].result = None
            /\ task_dict[id].runs = 1
            /\ id \notin SeqSet(execQueue)

(* C6 witness: the callable of a child returned None while its parent was  *)
(* suspended waiting for it.                                               *)
C6_Witness ==
    \E id \in Tasks :
        /\ task_dict[id].ret = "None"
        /\ task_dict[id].index # None
        /\ task_dict[id].parentId \in Tasks
        /\ Gen(task_dict[id].parentId).phase = "suspended"

(* C7: a populated result never changes and a finished task is never run   *)
(* again; no callable is invoked twice; and a wait on a single future that *)
(* had already finished yields that future without switching to the        *)
(* controller.                                                             *)
C7_ResultIsFinal ==
    /\ [][ \A id \in Tasks :
             task_dict[id].result # None =>
                /\ id \in DOMAIN task_dict'
                /\ task_dict'[id].result = task_dict[id].result
                /\ task_dict'[id].runs = task_dict[id].runs ]_vars
    /\ [](\A id \in Tasks :
             /\ task_dict[id].runs <= 1
             /\ (Len(Gen(id).args) = 1 /\ Gen(id).endedAtCall = {1}) =>
                   /\ Gen(id).susp = 0
                   /\ Gen(id).phase # "suspended"
                   /\ Gen(id).yielded \in {<<>>, Gen(id).args})

(* C7 witness: a task has exhausted a later wait on one future that had    *)
(* finished before the call and sits re-enqueued in the pending queue.     *)
C7_Witness ==
    \E id \in Tasks :
        /\ Running(id)
        /\ waitCalls > 1
        /\ Len(Gen(id).args) = 1
        /\ Gen(id).endedAtCall = {1}
        /\ Gen(id).phase = "done"
        /\ Gen(id).yielded = Gen(id).args
        /\ Gen(id).args[1] \in SeqSet(execQueue)
        /\ task_dict[Gen(id).args[1]].runs = 1

(* C8: runController has returned only on the origin worker, with `task`   *)
(* the root task, the task that last ran, its result populated; the socket *)
(* was shut down once, on that exit, and the value returned is the root's  *)
(* result.                                                                 *)
C8_ExitOnlyOnRootDone ==
    /\ pc = "done" =>
        /\ is_origin = TRUE
        /\ task = Some(TaskId(worker, 0))
        /\ current = task
        /\ task_dict[task[1]].parentId = rootId
        /\ task_dict[task[1]].result # None
        /\ retval = Some(task_dict[task[1]].result)
        /\ shutdowns = 1
    /\ pc # "done" => (shutdowns = 0 /\ retval = None)

(* C8 witness: the loop has exited after the root waited for a child.      *)
C8_Witness ==
    /\ pc = "done"
    /\ waitCalls > 0
    /\ task_dict[task[1]].children # {}

(* C9: submit called before startup ends in NotStartedProperly and leaves  *)
(* the queue, the task table and the rank counter as they were.            *)
C9_SubmitNotStarted ==
    apiCall.op = "submit" =>
        /\ apiCall.outcome = "NotStartedProperly"
        /\ execQueue = <<>>
        /\ task_dict = EmptyDict
        /\ rank = 0

(* C9 witness: submit has been called before startup. *)
C9_Witness ==
    /\ apiCall.op = "submit"
    /\ pc = "idle"
    /\ current = None

(* C10: every futures call made before startup ends in NotStartedProperly. *)
C10_AllNotStarted ==
    apiCall.op # "none" => apiCall.outcome = "NotStartedProperly"

(* C13: a step in which the running task submits creates exactly one new   *)
(* task, parented to the current task, registers it among the current      *)
(* task's children, appends it once to the pending queue and does not      *)
(* switch to the controller; the current task is the same, and nothing     *)
(* else of it or of any other task changes.                                *)
C13_SubmitFrame ==
    [][ (pc = "intask" /\ rank' # rank) =>
          LET cur   == current[1]
              child == TaskId(worker, rank)
          IN
          /\ rank' = rank + 1
          /\ child \notin Tasks
          /\ DOMAIN task_dict' = Tasks \cup {child}
          /\ task_dict'[child].parentId = cur
          /\ task_dict'[child].result = None
          /\ task_dict'[child].greenlet = "None"
          /\ task_dict'[child].index = None
          /\ task_dict'[cur].children = task_dict[cur].children \cup {child}
          /\ child \notin task_dict[cur].children
          /\ child \notin SeqSet(execQueue)
          /\ execQueue' = Append(execQueue, child)
          /\ pc' = "intask"
          /\ current' = current
          /\ task' = task
          /\ \A o \in Tasks \ {cur} : task_dict'[o] = task_dict[o]
          /\ [task_dict'[cur] EXCEPT !.children = task_dict[cur].children]
                = task_dict[cur]
      ]_vars

(* C13 witness: a task that is not the root has submitted a child, which   *)
(* sits unstarted in the pending queue while its parent still runs.        *)
C13_Witness ==
    \E id \in Tasks :
        /\ Running(id)
        /\ task_dict[id].parentId # rootId
        /\ \E c \in task_dict[id].children :
              /\ task_dict[c].parentId = id
              /\ task_dict[c].st = "new"
              /\ c \in SeqSet(execQueue)

(* C14: every submitted task runs to completion, also one nobody waits for *)
(* and one still queued when the root finishes on the origin worker: as no *)
(* task runs once runController has returned, every task must have         *)
(* finished by then.                                                       *)
C14_SubmittedRunsToCompletion ==
    pc = "done" =>
        \A id \in Tasks :
            /\ task_dict[id].result # None
            /\ task_dict[id].st = "done"

(* C17: the controller resumes a task suspended in a wait only with a      *)
(* future that is an argument of the _waitAny call it is suspended in and  *)
(* that this call has not delivered yet (for _waitAll, the one future of   *)
(* the current inner _waitAny).                                            *)
C17_ResumedByOwnCohort ==
    [][ (pc = "loop" /\ pc' = "intask") =>
          LET child == task[1]
              g     == Gen(current'[1])
          IN
          /\ g.phase = "suspended"
          /\ g.kind = "any" =>
                child \in SeqSet(g.args) \ SeqSet(g.yielded)
          /\ g.kind = "all" =>
                (g.pos <= Len(g.args) /\ child = g.args[g.pos])
      ]_vars

(* C18: whenever the controller is about to process a finished local task  *)
(* whose index is set, the parent of the task is in the task table, has no *)
(* result and has a greenlet: the lookup of line 70 and the assertions of  *)
(* lines 71-72 never fail.                                                 *)
C18_ParentAwaitsIndexedChild ==
    ( /\ pc = "loop"
      /\ LoopCond(task_dict[task[1]])
      /\ task_dict[task[1]].result # None
      /\ task[1][1] = worker
      /\ task_dict[task[1]].index # None )
    => ( /\ task_dict[task[1]].parentId \in Tasks
         /\ task_dict[task_dict[task[1]].parentId].result = None
         /\ task_dict[task_dict[task[1]].parentId].greenlet # "None" )

(* C19: every task gets a greenlet at most once, has none before its first *)
(* run and has none again once it has finished.                            *)
C19_ContextDiscarded ==
    \A id \in Tasks :
        /\ task_dict[id].runs <= 1
        /\ task_dict[id].runs = 0 => task_dict[id].greenlet = "None"
        /\ task_dict[id].result # None => task_dict[id].greenlet = "None"

(* C20: when the controller holds a finished task of another worker, its   *)
(* step hands the task to sendResult and pops the next task: the task is   *)
(* not put on the local queue and no task is resumed, whether or not the   *)
(* index of the task is set; no task is sent twice, only finished tasks of *)
(* other workers are sent, and none of them is ever on the local queue.    *)
C20_ForeignResultSent ==
    /\ [][ ( /\ pc = "loop"
             /\ task[1][1] # worker
             /\ task_dict[task[1]].result # None )
           => ( /\ sent' = Append(sent, task[1])
                /\ pc' = "l81"
                /\ current' = current
                /\ task[1] \notin SeqSet(execQueue')
                /\ \A id \in Tasks : task_dict'[id].gen = task_dict[id].gen )
         ]_vars
    /\ [](/\ \A i, j \in DOMAIN sent : i # j => sent[i] # sent[j]
          /\ \A i \in DOMAIN sent :
                sent[i][1] # worker /\ task_dict[sent[i]].result # None
          /\ \A i \in DOMAIN execQueue : execQueue[i][1] = worker)

(* C20 witness: a finished task of another worker whose index is set has   *)
(* been sent and the controller has popped the next task.                  *)
C20_Witness ==
    /\ pc = "l81"
    /\ sent # <<>>
    /\ task_dict[sent[Len(sent)]].index # None
    /\ task_dict[sent[Len(sent)]].children # {}
    /\ task # Some(sent[Len(sent)])

(* C11: wait(fs, timeout = 0) does not switch to the controller: the        *)
(* caller stays the running task; the call makes exactly one queue poll,    *)
(* leaves the queue as it is, and returns as done exactly the futures of    *)
(* fs that have ended after that poll and as not_done the rest of fs.       *)
C11_WaitNowPollsOnce ==
    [][ \A id \in Tasks :
          ( /\ Running(id)
            /\ polls' # polls
            /\ id \in DOMAIN task_dict'
            /\ task_dict'[id].gen.op = "wait"
            /\ task_dict'[id].gen.phase = "returned"
            /\ task_dict'[id].gen.timeout = 0 )
          => LET g == task_dict'[id].gen IN
             /\ pc' = "intask"
             /\ current' = current
             /\ task' = task
             /\ task_dict'[id].st = task_dict[id].st
             /\ execQueue' = execQueue
             /\ polls' = polls + 1
             /\ g.done = { f \in SeqSet(g.args) : Ended(task_dict'[f]) }
             /\ g.not_done = { f \in SeqSet(g.args) : ~Ended(task_dict'[f]) } ]_vars

(* A wait with timeout = 0 has returned one finished and one unfinished    *)
(* future.                                                                  *)
C11_Witness ==
    \E id \in Tasks :
        /\ Running(id)
        /\ polls > 0
        /\ Gen(id).op = "wait"
        /\ Gen(id).phase = "returned"
        /\ Gen(id).timeout = 0
        /\ Gen(id).done # {}
        /\ Gen(id).not_done # {}

(* C12: the pair wait has returned partitions fs and its done holds only    *)
(* ended futures; a blocking wait with ALL_COMPLETED has returned an empty  *)
(* not_done, and a blocking wait with FIRST_COMPLETED on a non-empty fs a   *)
(* non-empty done.                                                          *)
C12_WaitPartition ==
    \A id \in Tasks :
        LET g == Gen(id) IN
        (g.op = "wait" /\ g.phase = "returned") =>
            /\ g.done \cup g.not_done = SeqSet(g.args)
            /\ g.done \cap g.not_done = {}
            /\ \A f \in g.done : Ended(task_dict[f])
            /\ (g.timeout < 0 /\ g.return_when = ALL_COMPLETED)
                   => g.not_done = {}
            /\ (g.timeout < 0 /\ g.return_when = FIRST_COMPLETED /\ g.args # <<>>)
                   => g.done # {}

(* The number of eraseBuffer calls made with group id x. *)
Erasures(x) == Cardinality({ i \in DOMAIN erased : erased[i] = x })

(* C15: while a mapScan or mapReduce call is under way its buffer has not   *)
(* been erased; once the call has ended, by returning or by raising,        *)
(* eraseBuffer has been called exactly once with its group id, and every    *)
(* child of the call had been yielded by the wait before that.              *)
C15_BufferErasedOnce ==
    \A id \in Tasks :
        LET g == Gen(id) IN
        g.group # None =>
            IF g.phase = "returned" \/ task_dict[id].st = "raised"
              THEN /\ Erasures(g.group[1]) = 1
                   /\ SeqSet(g.yielded) = SeqSet(g.args)
              ELSE Erasures(g.group[1]) = 0

(* C16: the operands mapReduce has folded are the values of all its         *)
(* children, each once, in the order of their sequence numbers.             *)
C16_MapReduceFoldsAll ==
    \A id \in Tasks :
        LET g == Gen(id) IN
        (g.op = "mapReduce" /\ g.phase = "returned")
            => g.value = Results(g.args)

(* C21: when the shutdown signal has been raised under the controller,      *)
(* _startup has returned None, the signal has not propagated and the queue  *)
(* connection has been released exactly once; on normal exit it has been    *)
(* released exactly once too, and it is never released more than once.      *)
C21_ShutdownReleasesOnce ==
    /\ error # "Shutdown"
    /\ shutdowns <= 1
    /\ pc = "stopped" => (retval = None /\ shutdowns = 1 /\ error = "")
    /\ pc = "done" => shutdowns = 1

(* The signal has ended the run of the origin worker while a task was      *)
(* suspended in a wait and another had not started.                        *)
C21_Witness ==
    /\ pc = "stopped"
    /\ is_origin = TRUE
    /\ shutdowns = 1
    /\ \E id \in Tasks : Gen(id).phase = "suspended"
    /\ execQueue # <<>>

(* C22: on the single origin worker with the FIFO queue, when no callable   *)
(* has returned None, the run has not ended by an error, it can take a step *)
(* as long as runController has not returned (no task is left suspended by  *)
(* a controller that has nothing to pop), and the value returned is the     *)
(* result of the root task.                                                 *)
C22_RunEndsWithRootResult ==
    (\A id \in Tasks : task_dict[id].ret # "None") =>
        /\ pc # "crashed"
        /\ pc # "done" => ENABLED NextFifo
        /\ pc = "done" => retval = Some(task_dict[TaskId(worker, 0)].result)

====
